---- MODULE Spec2Model ----
(***************************************************************************)
(* Model of the expense router, src/src/router/expenses.mjs.               *)
(*                                                                         *)
(* Time is a count of ticks.  A calendar day is TicksPerDay ticks and a    *)
(* month DaysPerMonth days; months are numbered from 1 as in the           *)
(* /month/:month parameter, and the clock stays inside one year.  The      *)
(* server's zone is taken to be UTC, so the local month boundaries and the *)
(* ISO (UTC) day keys lie on the same grid.                                *)
(***************************************************************************)
EXTENDS Integers, Sequences, FiniteSets, TLC

\* ------------------------------------------------------------------ bounds
MaxExpenses == 1        \* documents the store ever assigns an _id to
TicksPerDay == 2        \* distinct timestamps within one calendar day
DaysPerMonth == 2       \* calendar days in a month
StartMonth == 2         \* month in which the process is started
MaxLen == 3             \* longest list handed to the day grouping
MaxAmount == 2          \* largest amount handed to the day grouping

TicksPerMonth == TicksPerDay * DaysPerMonth

NULL == "null"
NoDate == 0 - 1         \* a timestamp path that was never set

Users == {"u1", "u2"}

\* The category collection, held fixed: c0 is global, c1 belongs to u1.
Category ==
    { [_id |-> "c0", created_by |-> NULL],
      [_id |-> "c1", created_by |-> "u1"] }

CategoryIds == {c._id : c \in Category}

\* new Date(year, month - 1, 1): the first instant of month m
MonthStart(m) == (m - 1) * TicksPerMonth

\* the month a timestamp lies in, as getMonth() + 1
MonthOf(t) == (t \div TicksPerMonth) + 1

\* date.toISOString().split('T')[0]: the timestamp truncated to its day
DayKey(t) == t \div TicksPerDay

VARIABLES
    expenses,       \* the expense collection: a set of documents
    nextId,         \* the next _id the store assigns
    now,            \* the clock, new Date()
    startOfMonth,   \* module-level constant computed when the router loads
    endOfMonth,     \* module-level constant computed when the router loads
    req,            \* the request being served
    res,            \* the response sent for it (status 0: none was sent)
    log,            \* the logger call made for it
    threw,          \* the store call that threw while serving it
    gin,            \* day grouping on its own: the list handed in
    gout,           \* day grouping on its own: the buckets produced
    gpc             \* day grouping on its own: "in" before, "out" after

vars == <<expenses, nextId, now, startOfMonth, endOfMonth, req, res, log, threw, gin, gout, gpc>>

\* ------------------------------------------------------------ store queries

\* The value a query sees at a path: a path the document lacks reads as null.
Path(doc, path) == IF path \in DOMAIN doc THEN doc[path] ELSE NULL

\* .populate('category_id'): the reference replaced by the category document
Populate(e) ==
    [e EXCEPT !.category_id = CHOOSE c \in Category : c._id = e.category_id]

\* Every enumeration of the finite set S, each document once.
Enumerations(S) ==
    { s \in [1..Cardinality(S) -> S] : \A i, j \in DOMAIN s : s[i] = s[j] => i = j }

\* .sort({ date_of_expense: 'desc' }): the store leaves the order of equal dates open
SortDesc(S) ==
    { s \in Enumerations(S) :
        \A i, j \in DOMAIN s : i < j => s[i].date_of_expense >= s[j].date_of_expense }

\* .sort({ date_of_expense: 'asc' })
SortAsc(S) ==
    { s \in Enumerations(S) :
        \A i, j \in DOMAIN s : i < j => s[i].date_of_expense <= s[j].date_of_expense }

\* Category.findOne({ _id, $or: [{ created_by: user }, { created_by: null }] })
isCategoryExist(category_id, user) ==
    { c \in Category :
        /\ c._id = category_id
        /\ (Path(c, "created_by") = user \/ Path(c, "created_by") = NULL) }

\* ------------------------------------------------------------ day grouping

\* faulty variant: the amount assigned instead of added
AddAmountAssign(total_expense, expense) == expense.amount

\* acc[date].total_expense += expense.amount
AddAmount(total_expense, expense) == total_expense + expense.amount

\* faulty variant: the bucket's list replaced instead of extended
PushExpenseReplace(data_expenses, expense) == <<expense>>

\* acc[date].data_expenses.push(expense)
PushExpense(data_expenses, expense) == Append(data_expenses, expense)

\* the reducer: acc keeps its keys in the order they were first set
Reducer(acc, expense) ==
    LET date == DayKey(expense.date_of_expense)
        acc1 == IF \E i \in DOMAIN acc : acc[i].date = date
                THEN acc
                ELSE Append(acc, [date |-> date, data_expenses |-> <<>>, total_expense |-> 0])
    IN  [i \in DOMAIN acc1 |->
            IF acc1[i].date = date
            THEN [date |-> date,
                  data_expenses |-> PushExpense(acc1[i].data_expenses, expense),
                  total_expense |-> AddAmount(acc1[i].total_expense, expense)]
            ELSE acc1[i]]

RECURSIVE Reduce(_, _)
\* expenses.reduce(reducer, {})
Reduce(acc, list) ==
    IF list = <<>> THEN acc ELSE Reduce(Reducer(acc, Head(list)), Tail(list))

groupedExpenses(list) == Reduce(<<>>, list)

\* (a, b) => new Date(b.date_of_expense) - new Date(a.date_of_expense)
Compare(a, b) == b.date_of_expense - a.date_of_expense

RECURSIVE Insert(_, _)
\* one step of the stable sort: e goes behind everything Compare does not put after it
Insert(sorted, e) ==
    IF sorted = <<>> THEN <<e>>
    ELSE IF Compare(Head(sorted), e) <= 0
         THEN <<Head(sorted)>> \o Insert(Tail(sorted), e)
         ELSE <<e>> \o sorted

RECURSIVE SortFrom(_, _)
SortFrom(sorted, list) ==
    IF list = <<>> THEN sorted ELSE SortFrom(Insert(sorted, Head(list)), Tail(list))

\* faulty variant: the bucket left in the order the records arrived
SortBucketSkipped(data_expenses) == data_expenses

\* data_expenses.sort(compare): Array.prototype.sort is stable
SortBucket(data_expenses) == SortFrom(<<>>, data_expenses)

\* Object.keys(groupedExpenses).map(...)
data(list) ==
    LET grouped == groupedExpenses(list)
    IN  [i \in DOMAIN grouped |->
            [date_of_expenses |-> grouped[i].date,
             total_expense |-> grouped[i].total_expense,
             data_expenses |-> SortBucket(grouped[i].data_expenses)]]

\* ------------------------------------------------------- requests, responses

NoResponse == [status |-> 0, message |-> "", data |-> <<>>]

Response(status, message, payload) ==
    [status |-> status, message |-> message, data |-> payload]

\* A rejection no try block of the handler catches.  The handler sends nothing
\* and logs nothing; what the caller gets is the framework's doing: either no
\* response at all, or the framework's own 500.
UnhandledRejection ==
    { NoResponse, Response(500, "Internal Server Error", <<>>) }

\* Bodies the create schema accepts: all four fields, well formed.
CreateDates ==
    { MonthStart(StartMonth) - 1, MonthStart(StartMonth) + 1,
      MonthStart(StartMonth + 1) }

CreateBodies ==
    [ amount : {1}, expense_name : {"n"},
      date_of_expense : CreateDates, category_id : CategoryIds ]

\* Bodies the update schema accepts: every field optional.
UpdateBodies ==
    { <<>>,
      [amount |-> 0],
      [amount |-> 1],
      [expense_name |-> "n"],
      [date_of_expense |-> MonthStart(StartMonth + 1)] }
    \cup { [category_id |-> c] : c \in CategoryIds }

\* A body either schema refuses.
InvalidBody == [expense_name |-> ""]

\* validationResult(req): whether the body broke the schema
errors(body) == body = InvalidBody

\* !body.amount, !body.expense_name, ...: absent, 0 and "" are all falsy
Falsy(body, field) ==
    \/ field \notin DOMAIN body
    \/ field = "amount" /\ body[field] = 0
    \/ field \in {"expense_name", "category_id"} /\ body[field] = ""

\* the guard of 'at least one field must be filled'
NoFieldFilled(body) ==
    /\ Falsy(body, "amount")
    /\ Falsy(body, "expense_name")
    /\ Falsy(body, "date_of_expense")
    /\ Falsy(body, "category_id")

Request(op, user, id, month, body) ==
    [op |-> op, user |-> user, id |-> id, month |-> month, body |-> body]

\* what a handler does to everything but the store
Answer(request, response, level, thrown) ==
    /\ req' = request
    /\ res' = response
    /\ log' = level
    /\ threw' = thrown
    /\ UNCHANGED <<now, startOfMonth, endOfMonth, gin, gout, gpc>>

\* ------------------------------------------------------------------ handlers
\* Every await of a store call either returns or throws.

\* Expense.find({ user_id, date_of_expense: { $gte: startOfMonth, $lte: endOfMonth } })
CurrentMonthFilter(e, user) ==
    /\ e.user_id = user
    /\ e.date_of_expense >= startOfMonth
    /\ e.date_of_expense <= endOfMonth

\* if (expenses.length === 0) 404 else 200 with the day buckets
GetAllResponse(found) ==
    IF Len(found) = 0
    THEN [res |-> Response(404, "expense not found", <<>>), log |-> "error"]
    ELSE [res |-> Response(200, "success get all expenses", data(found)), log |-> "info"]

\* router.get('/')
GetAll(user) ==
    LET request == Request("GET /", user, 0, 0, <<>>)
        matched == { Populate(e) : e \in { x \in expenses : CurrentMonthFilter(x, user) } }
    IN  /\ UNCHANGED <<expenses, nextId>>
        /\ \/ Answer(request, Response(500, "error get all expenses", <<>>), "error", "Expense")
           \/ \E found \in SortDesc(matched) :
                 Answer(request, GetAllResponse(found).res, GetAllResponse(found).log, "none")

\* Expense.find({ user_id, date_of_expense: { $gte: startOfMonth, $lt: endOfMonth } })
\* with the handler's own startOfMonth and endOfMonth
MonthFilter(e, user, month) ==
    /\ e.user_id = user
    /\ e.date_of_expense >= MonthStart(month)
    /\ e.date_of_expense < MonthStart(month + 1)

\* faulty variant: the empty list answered like any other
GetMonthResponseNoCheck(found) ==
    [res |-> Response(200, "success get all expenses", found), log |-> "info"]

\* if (expenses.length === 0) 404 else 200 with the flat list
GetMonthResponse(found) ==
    IF Len(found) = 0
    THEN [res |-> Response(404, "expense not found", <<>>), log |-> "error"]
    ELSE [res |-> Response(200, "success get all expenses", found), log |-> "info"]

\* router.get('/month/:month')
GetMonth(user, month) ==
    LET request == Request("GET /month/:month", user, 0, month, <<>>)
        matched == { Populate(e) : e \in { x \in expenses : MonthFilter(x, user, month) } }
    IN  /\ UNCHANGED <<expenses, nextId>>
        /\ \/ Answer(request, Response(500, "error get all expenses", <<>>), "error", "Expense")
           \/ \E found \in SortAsc(matched) :
                 Answer(request, GetMonthResponse(found).res, GetMonthResponse(found).log, "none")

\* Expense.findOne({ _id: req.params.id, user_id: req.user._id })
FindOneFilter(e, id, user) == e._id = id /\ e.user_id = user

\* router.get('/:id')
GetById(user, id) ==
    LET request == Request("GET /:id", user, id, 0, <<>>)
        expense == { e \in expenses : FindOneFilter(e, id, user) }
    IN  /\ UNCHANGED <<expenses, nextId>>
        /\ \/ Answer(request, Response(500, "error get expense by id", <<>>), "error", "Expense")
           \/ /\ expense = {}
              /\ Answer(request, Response(404, "expense not found", <<>>), "error", "none")
           \/ \E e \in expense :
                 Answer(request, Response(200, "success get expense by id", e), "info", "none")

\* The paths of an expense document.  No handler writes a created_by path.
ExpensePaths ==
    { "_id", "user_id", "category_id", "amount", "expense_name",
      "date_of_expense", "updated_at" }

\* new Expense({ ...body, user_id }): the handler sets no timestamp
newExpense(body, user, _id) ==
    [p \in ExpensePaths |->
        CASE p = "_id" -> _id
          [] p = "user_id" -> user
          [] p = "updated_at" -> NoDate
          [] OTHER -> body[p]]

\* router.post('/')
Post(user, body) ==
    LET request == Request("POST /", user, 0, 0, body)
    IN  IF errors(body)
        THEN /\ UNCHANGED <<expenses, nextId>>
             /\ Answer(request, Response(400, "errors", <<>>), "error", "none")
        ELSE
          \/ /\ UNCHANGED <<expenses, nextId>>       \* Category.findOne throws, outside the try
             /\ \E r \in UnhandledRejection : Answer(request, r, "none", "Category")
          \/ /\ isCategoryExist(body.category_id, user) = {}
             /\ UNCHANGED <<expenses, nextId>>
             /\ Answer(request, Response(400, "category not found", <<>>), "error", "none")
          \/ /\ isCategoryExist(body.category_id, user) # {}
             /\ \/ /\ UNCHANGED <<expenses, nextId>>  \* newExpense.save() throws
                   /\ Answer(request, Response(500, "error create expense", <<>>), "error", "Expense")
                \/ /\ nextId <= MaxExpenses
                   /\ expenses' = expenses \cup {newExpense(body, user, nextId)}
                   /\ nextId' = nextId + 1
                   /\ Answer(request,
                             Response(201, "success create expense", newExpense(body, user, nextId)),
                             "info", "none")

\* the filter of Expense.findOneAndUpdate:
\* { _id: id, $or: [{ created_by: req.user._id }, { created_by: null }] }
UpdateFilter(e, id, user) ==
    /\ e._id = id
    /\ (Path(e, "created_by") = user \/ Path(e, "created_by") = NULL)

\* { ...body, updated_at: new Date() }
UpdateData(body) ==
    [f \in DOMAIN body \cup {"updated_at"} |-> IF f = "updated_at" THEN now ELSE body[f]]

\* the document after the update: the paths named by the update are set
Updated(e, update) ==
    [f \in DOMAIN e |-> IF f \in DOMAIN update THEN update[f] ELSE e[f]]

\* the try block of router.patch('/:id')
PatchStore(request, user, id, body) ==
    LET matched == { e \in expenses : UpdateFilter(e, id, user) }
    IN  \/ /\ UNCHANGED <<expenses, nextId>>          \* findOneAndUpdate throws
           /\ Answer(request, Response(500, "error update expense", <<>>), "error", "Expense")
        \/ /\ matched = {}
           /\ UNCHANGED <<expenses, nextId>>
           /\ Answer(request, Response(404, "expense not found", <<>>), "error", "none")
        \/ \E e \in matched :
              /\ expenses' = (expenses \ {e}) \cup {Updated(e, UpdateData(body))}
              /\ UNCHANGED nextId
              /\ Answer(request,
                        Response(200, "success update expense", Updated(e, UpdateData(body))),
                        "info", "none")

\* router.patch('/:id')
Patch(user, id, body) ==
    LET request == Request("PATCH /:id", user, id, 0, body)
    IN  IF errors(body)
        THEN /\ UNCHANGED <<expenses, nextId>>
             /\ Answer(request, Response(400, "errors", <<>>), "error", "none")
        ELSE IF NoFieldFilled(body)
        THEN /\ UNCHANGED <<expenses, nextId>>
             /\ Answer(request, Response(400, "at least one field must be filled", <<>>),
                       "error", "none")
        ELSE IF ~Falsy(body, "category_id")
        THEN \/ /\ UNCHANGED <<expenses, nextId>>    \* Category.findOne throws, outside the try
                /\ \E r \in UnhandledRejection : Answer(request, r, "none", "Category")
             \/ /\ isCategoryExist(body.category_id, user) = {}
                /\ UNCHANGED <<expenses, nextId>>
                /\ Answer(request, Response(400, "category not found", <<>>), "error", "none")
             \/ /\ isCategoryExist(body.category_id, user) # {}
                /\ PatchStore(request, user, id, body)
        ELSE PatchStore(request, user, id, body)

\* faulty variant: the delete matched on the id alone
DeleteFilterAnyOwner(e, id, user) == e._id = id

\* Expense.findOneAndDelete({ _id: id, user_id: req.user._id })
DeleteFilter(e, id, user) == e._id = id /\ e.user_id = user

\* router.delete('/:id')
Delete(user, id) ==
    LET request == Request("DELETE /:id", user, id, 0, <<>>)
        deletedExpense == { e \in expenses : DeleteFilter(e, id, user) }
    IN  \/ /\ UNCHANGED <<expenses, nextId>>          \* findOneAndDelete throws
           /\ Answer(request, Response(500, "error delete expense", <<>>), "error", "Expense")
        \/ /\ deletedExpense = {}
           /\ UNCHANGED <<expenses, nextId>>
           /\ Answer(request, Response(404, "expense not found", <<>>), "error", "none")
        \/ \E e \in deletedExpense :
              /\ expenses' = expenses \ {e}
              /\ UNCHANGED nextId
              /\ Answer(request, Response(200, "success delete expense", e), "info", "none")

\* The clock runs on into the month after the start; the model reads it once
\* in each month.
Tick ==
    /\ MonthOf(now) = StartMonth
    /\ now' = now + TicksPerMonth
    /\ UNCHANGED <<expenses, nextId, startOfMonth, endOfMonth, req, res, log, threw, gin, gout, gpc>>

\* getCurrentMonthDateRange(), evaluated once when the module is loaded
getCurrentMonthDateRange(t) ==
    [startOfMonth |-> MonthStart(MonthOf(t)), endOfMonth |-> MonthStart(MonthOf(t) + 1)]

Ids == 1..MaxExpenses

Months == {StartMonth, StartMonth + 1}

Init ==
    /\ expenses = {}
    /\ nextId = 1
    /\ now = MonthStart(StartMonth) + 1
    /\ startOfMonth = getCurrentMonthDateRange(now).startOfMonth
    /\ endOfMonth = getCurrentMonthDateRange(now).endOfMonth
    /\ req = Request("", "", 0, 0, <<>>)
    /\ res = NoResponse
    /\ log = "none"
    /\ threw = "none"
    /\ gin = <<>>
    /\ gout = <<>>
    /\ gpc = "idle"

Next ==
    \/ \E user \in Users : GetAll(user)
    \/ \E user \in Users, month \in Months : GetMonth(user, month)
    \/ \E user \in Users, id \in Ids : GetById(user, id)
    \/ \E user \in Users, body \in CreateBodies \cup {InvalidBody} : Post(user, body)
    \/ \E user \in Users, id \in Ids, body \in UpdateBodies \cup {InvalidBody} :
          Patch(user, id, body)
    \/ \E user \in Users, id \in Ids : Delete(user, id)
    \/ Tick

Spec == Init /\ [][Next]_vars

\* ------------------------------------------- the day grouping on its own
\* The grouping of router.get('/') applied to every list of at most MaxLen
\* documents, in every order.  Document i of the list has _id i; two of the
\* dates fall on one day and the third on the next.

GroupDates ==
    { MonthStart(StartMonth), MonthStart(StartMonth) + 1,
      MonthStart(StartMonth) + TicksPerDay }

GroupLists ==
    UNION { { [i \in 1..n |-> [_id |-> i, date_of_expense |-> d[i], amount |-> a[i]]] :
                d \in [1..n -> GroupDates], a \in [1..n -> 0..MaxAmount] } :
            n \in 1..MaxLen }

GroupInit ==
    /\ gin \in GroupLists
    /\ gout = <<>>
    /\ gpc = "in"
    /\ expenses = {}
    /\ nextId = 1
    /\ now = MonthStart(StartMonth) + 1
    /\ startOfMonth = getCurrentMonthDateRange(now).startOfMonth
    /\ endOfMonth = getCurrentMonthDateRange(now).endOfMonth
    /\ req = Request("", "", 0, 0, <<>>)
    /\ res = NoResponse
    /\ log = "none"
    /\ threw = "none"

Group ==
    /\ gpc = "in"
    /\ gout' = data(gin)
    /\ gpc' = "out"
    /\ UNCHANGED <<gin, expenses, nextId, now, startOfMonth, endOfMonth, req, res, log, threw>>

GroupNext == Group

SpecGroup == GroupInit /\ [][GroupNext]_vars

\* ------------------------------------------------- properties of the grouping

RECURSIVE SumAmounts(_)
\* the arithmetic sum of the amounts of a set of documents
SumAmounts(S) ==
    IF S = {} THEN 0
    ELSE LET e == CHOOSE x \in S : TRUE IN e.amount + SumAmounts(S \ {e})

\* the documents of a list, as a set
Docs(list) == { list[i] : i \in DOMAIN list }

\* the input documents whose calendar day is `day`
OfDay(day) == { e \in Docs(gin) : DayKey(e.date_of_expense) = day }

\* C5: every bucket's total_expense is the arithmetic sum of the amounts of
\* exactly the input records whose day key is the bucket's date_of_expenses,
\* whatever the order of the input list.
BucketTotalIsSum ==
    gpc = "out" =>
        \A i \in DOMAIN gout :
            gout[i].total_expense = SumAmounts(OfDay(gout[i].date_of_expenses))

\* C5 witness: a bucket that adds up two records with different non-zero
\* amounts, out of an input that is not in descending order.
BucketTotalIsSumWitness ==
    /\ gpc = "out"
    /\ \E i, j \in DOMAIN gin :
          /\ i < j
          /\ gin[i].date_of_expense < gin[j].date_of_expense
          /\ DayKey(gin[i].date_of_expense) = DayKey(gin[j].date_of_expense)
          /\ gin[i].amount > 0
          /\ gin[j].amount > gin[i].amount
    /\ Len(gout) = 2

\* C6: the buckets partition the input: a record lies in the bucket of its
\* day and in no other, no bucket is empty, no two buckets share a key, and the
\* buckets together hold each input record once and nothing else.
GroupingIsPartition ==
    gpc = "out" =>
        /\ \A i \in DOMAIN gout :
              /\ Len(gout[i].data_expenses) > 0
              /\ Docs(gout[i].data_expenses) = OfDay(gout[i].date_of_expenses)
              /\ Len(gout[i].data_expenses) = Cardinality(OfDay(gout[i].date_of_expenses))
        /\ \A i, j \in DOMAIN gout :
              gout[i].date_of_expenses = gout[j].date_of_expenses => i = j
        /\ \A e \in Docs(gin) :
              \E i \in DOMAIN gout : gout[i].date_of_expenses = DayKey(e.date_of_expense)

\* C6 witness: three records spread over two buckets.
GroupingIsPartitionWitness ==
    /\ gpc = "out"
    /\ Len(gin) = 3
    /\ Len(gout) = 2
    /\ \E i \in DOMAIN gout : Len(gout[i].data_expenses) = 2

\* C10 as stated: within every bucket the records are strictly descending by
\* full timestamp.
BucketStrictlyDescending ==
    gpc = "out" =>
        \A b \in DOMAIN gout :
            \A i, j \in DOMAIN gout[b].data_expenses :
                i < j => gout[b].data_expenses[i].date_of_expense
                            > gout[b].data_expenses[j].date_of_expense

\* C10 as amended: within every bucket no record is followed by one with a
\* later timestamp, whatever the order of the input list.
BucketDescending ==
    gpc = "out" =>
        \A b \in DOMAIN gout :
            \A i, j \in DOMAIN gout[b].data_expenses :
                i < j => gout[b].data_expenses[i].date_of_expense
                            >= gout[b].data_expenses[j].date_of_expense

\* C10 witness: two records of one day arrive earlier one first and leave
\* later one first.
BucketDescendingWitness ==
    /\ gpc = "out"
    /\ \E i, j \in DOMAIN gin :
          /\ i < j
          /\ gin[i].date_of_expense < gin[j].date_of_expense
          /\ \E b \in DOMAIN gout :
                /\ Len(gout[b].data_expenses) = 2
                /\ gout[b].data_expenses[1] = gin[j]
                /\ gout[b].data_expenses[2] = gin[i]

\* ------------------------------------------------- properties of the handlers

\* a step that serves a request: every step but the clock's
Served == now' = now

\* the category document an expense refers to
CategoryOf(e) == CHOOSE c \in Category : c._id = e.category_id

\* the stored expense with this id is owned by somebody other than `user`
OwnedByAnother(id, user) == \E e \in expenses : e._id = id /\ e.user_id # user

\* C1: GET /:id answers 200 only with an expense the caller owns, DELETE /:id
\* removes an expense only when the caller owns it, and either request for
\* an expense of another user leaves the store as it is and is answered 404
\* (the store call returning).
OwnerOnlyReadDelete ==
    [][ (Served /\ req'.op \in {"GET /:id", "DELETE /:id"}) =>
          /\ (req'.op = "GET /:id" /\ res'.status = 200) =>
                /\ res'.data \in expenses
                /\ res'.data._id = req'.id
                /\ res'.data.user_id = req'.user
          /\ req'.op = "GET /:id" => expenses' = expenses
          /\ (req'.op = "DELETE /:id" /\ expenses' # expenses) =>
                \E e \in expenses :
                    /\ e._id = req'.id
                    /\ e.user_id = req'.user
                    /\ expenses' = expenses \ {e}
          /\ OwnedByAnother(req'.id, req'.user) =>
                /\ expenses' = expenses
                /\ res'.status # 200
                /\ threw' = "none" => res'.status = 404
      ]_vars

\* C1 witness: a DELETE for a stored expense of another user was answered 404,
\* the expense still stored.
OwnerOnlyReadDeleteWitness ==
    /\ req.op = "DELETE /:id"
    /\ res.status = 404
    /\ OwnedByAnother(req.id, req.user)

\* C2 as stated: PATCH /:id changes a stored expense only when the caller owns
\* it or its category is global; a valid PATCH for an expense of another user
\* with a category that is not global is answered 404 and changes nothing.
PatchOwnerOrGlobalCategory ==
    [][ (Served /\ req'.op = "PATCH /:id") =>
          \A e \in expenses :
              (e.user_id # req'.user /\ CategoryOf(e).created_by # NULL) =>
                  /\ e \in expenses'
                  /\ (/\ e._id = req'.id
                      /\ res'.status \notin {0, 400, 500}) => res'.status = 404
      ]_vars

\* the category named by a request body belongs to a user other than the caller
NamesForeignCategory(request) ==
    /\ "category_id" \in DOMAIN request.body
    /\ \E c \in Category :
          /\ c._id = request.body.category_id
          /\ c.created_by \notin {request.user, NULL}

\* C3 as stated: every stored expense refers to a category of its own owner or
\* a global one, and a create or update naming another user's category is
\* answered 400 'category not found' and writes nothing.
CategoryVisibleToOwner ==
    [][ /\ \A e \in expenses' : CategoryOf(e).created_by \in {e.user_id, NULL}
        /\ (/\ Served
            /\ req'.op \in {"POST /", "PATCH /:id"}
            /\ ~errors(req'.body)
            /\ NamesForeignCategory(req')
            /\ threw' = "none") =>
                /\ res'.status = 400
                /\ res'.message = "category not found"
                /\ expenses' = expenses
      ]_vars

\* C4 as stated: whenever a store call throws while a request is served, an
\* error is logged and the caller is answered 500.
StoreFailureLoggedAnd500 ==
    threw # "none" => (log = "error" /\ res.status = 500)

\* the records a list response carries
Carried(response) ==
    IF response.status # 200 THEN {}
    ELSE UNION { Docs(response.data[i].data_expenses) : i \in DOMAIN response.data }

\* C7: a list endpoint never answers 200 with nothing in it: a query that
\* matches no record is answered 404 'expense not found', and a 200 carries at
\* least one record (GET /: at least one bucket, none of them empty).
NoEmptySuccess ==
    /\ (req.op = "GET /" /\ threw = "none") =>
          /\ { e \in expenses : CurrentMonthFilter(e, req.user) } = {} =>
                (res.status = 404 /\ res.message = "expense not found")
          /\ res.status = 200 =>
                /\ Len(res.data) >= 1
                /\ \A i \in DOMAIN res.data : Len(res.data[i].data_expenses) >= 1
    /\ (req.op = "GET /month/:month" /\ threw = "none") =>
          /\ { e \in expenses : MonthFilter(e, req.user, req.month) } = {} =>
                (res.status = 404 /\ res.message = "expense not found")
          /\ res.status = 200 => Len(res.data) >= 1

\* C7 witness: the caller has an expense, none of them in the month asked
\* for, and the answer was 404.
NoEmptySuccessWitness ==
    /\ req.op = "GET /month/:month"
    /\ res.status = 404
    /\ \E e \in expenses : e.user_id = req.user

\* the mutable fields of an expense
MutableFields == {"amount", "expense_name", "date_of_expense", "category_id"}

\* C8 as stated: a PATCH that passes validation is answered 400 'at least one
\* field must be filled' exactly when its body holds none of the mutable
\* fields.
NoFieldRejectedIffNonePresent ==
    (req.op = "PATCH /:id" /\ ~errors(req.body)) =>
        ((res.status = 400 /\ res.message = "at least one field must be filled")
            <=> DOMAIN req.body \cap MutableFields = {})

\* C9 as stated: GET / selects exactly the caller's expenses dated in the
\* current month, first day to last day.
CurrentMonthSelected ==
    [][ (Served /\ req'.op = "GET /" /\ threw' = "none") =>
          { e._id : e \in Carried(res') }
              = { e._id : e \in { x \in expenses :
                                    /\ x.user_id = req'.user
                                    /\ MonthOf(x.date_of_expense) = MonthOf(now) } }
      ]_vars

====
